---- MODULE Spec2Model ----
(***************************************************************************)
(* Integer sets of natemcintosh/set: the sparse chunked set (a map from    *)
(* (is_positive, multiplier) keys to 64-bit words), the dense set (a slice *)
(* of bools with smallest_item and n_items) and the hash-based reference   *)
(* set the tests compare them with.                                        *)
(*                                                                         *)
(* A uint64 word is modelled by the set of its 1-bit positions, a subset   *)
(* of 0..63: | is union, & is intersection, ^ is symmetric difference,     *)
(* &^ is set difference, OnesCount64 is the cardinality and                *)
(* TrailingZeros64 is the least position (64 for the zero word).           *)
(***************************************************************************)
EXTENDS Integers, Sequences, FiniteSets

\* Longest input sequence handed to NewSet.
MaxLen == 3

\* Width of a chunk word.
WordBits == 64

\* Largest magnitude of the integers decomposed one by one.
RepMax == 130

\* The integers the operations are called with: two bits of chunk (+,0),
\* one bit of chunk (-,0), one bit of chunk (+,1).
Vals == {-1, 0, 1, 64}

\* The integers membership is observed on: every integer of the chunks
\* with multiplier 0 or 1, of both signs.
Universe == (1 - 2 * WordBits) .. (2 * WordBits - 1)

\* The integers the single-set runs are called with: Vals and the one bit
\* of chunk (-,1).
Wide == Vals \cup {-64}

Inputs == UNION {[1..n -> Vals] : n \in 0..MaxLen}

WideInputs == UNION {[1..n -> Wide] : n \in 0..MaxLen}

nil == "nil"
ErrElementNotFound == "element not found"

----------------------------------------------------------------------------
\* Helpers on sequences and finite sets of integers.

SetMin(S) == CHOOSE x \in S : \A y \in S : x <= y

Range(f) == {f[i] : i \in DOMAIN f}

\* slices.Sort of the tests: the ascending rearrangement of a sequence.
RECURSIVE Insert(_, _)
Insert(sorted, x) ==
    IF sorted = <<>> THEN <<x>>
    ELSE IF x <= Head(sorted) THEN <<x>> \o sorted
    ELSE <<Head(sorted)>> \o Insert(Tail(sorted), x)

RECURSIVE SortSeq(_)
SortSeq(q) == IF q = <<>> THEN <<>> ELSE Insert(SortSeq(Tail(q)), Head(q))

\* slices.Compact of the tests: drop consecutive duplicates.
RECURSIVE Compact(_)
Compact(q) ==
    IF Len(q) <= 1 THEN q
    ELSE IF q[1] = q[2] THEN Compact(Tail(q))
    ELSE <<q[1]>> \o Compact(Tail(q))

\* How many times x occurs in the sequence q.
Count(q, x) == Cardinality({i \in DOMAIN q : q[i] = x})

----------------------------------------------------------------------------
\* uint64 words as sets of bit positions.

Zero == {}
BitOr(a, b) == a \cup b
BitAnd(a, b) == a \cap b
BitXor(a, b) == (a \ b) \cup (b \ a)
BitAndNot(a, b) == a \ b
OnesCount64(u) == Cardinality(u)
TrailingZeros64(u) == IF u = {} THEN WordBits ELSE SetMin(u)

\* 1 << n on a uint64: a shift by 64 or more yields the zero word.
two_to_power_n_minus_1(n) == IF n < WordBits THEN {n} ELSE Zero

abs(x) == IF x < 0 THEN -x ELSE x

Key(is_positive, multiplier) ==
    [is_positive |-> is_positive, multiplier |-> multiplier]

\* The decomposition without the sign.
number_to_bitset_representation_NoSign(n) ==
    [is_positive |-> TRUE,
     multiplier |-> abs(n) \div WordBits,
     slot |-> two_to_power_n_minus_1(abs(n) % WordBits)]

number_to_bitset_representation(n) ==
    IF n >= 0
    THEN [is_positive |-> TRUE,
          multiplier |-> n \div WordBits,
          slot |-> IF n % WordBits = 0 THEN {0}
                   ELSE two_to_power_n_minus_1(n % WordBits)]
    ELSE [is_positive |-> FALSE,
          multiplier |-> (-n) \div WordBits,
          slot |-> IF (-n) % WordBits = 0 THEN {0}
                   ELSE two_to_power_n_minus_1((-n) % WordBits)]

KeyOf(n) ==
    LET rep == number_to_bitset_representation(n)
    IN  Key(rep.is_positive, rep.multiplier)

SlotOf(n) == number_to_bitset_representation(n).slot

\* m[k] = v on a Go map: the key is created when it is absent.
MapSet(m, k, v) == [x \in DOMAIN m \cup {k} |-> IF x = k THEN v ELSE m[x]]

\* delete(m, k) on a Go map.
MapDelete(m, k) == [x \in DOMAIN m \ {k} |-> m[x]]

EmptyMap == [x \in {} |-> Zero]

----------------------------------------------------------------------------
\* The sparse chunked set (src/bitset/set.go). A Set is its data map.

\* NewSet's loop storing the slot over the word already at the key.
RECURSIVE NewSetLoop_Overwrite(_, _)
NewSetLoop_Overwrite(uset, data) ==
    IF data = <<>> THEN uset
    ELSE NewSetLoop_Overwrite(MapSet(uset, KeyOf(Head(data)),
                                     SlotOf(Head(data))),
                              Tail(data))

RECURSIVE NewSetLoop(_, _)
NewSetLoop(uset, data) ==
    IF data = <<>> THEN uset
    ELSE LET v == Head(data)
             key == KeyOf(v)
             slot == SlotOf(v)
         IN  NewSetLoop(IF key \in DOMAIN uset
                        THEN MapSet(uset, key, BitOr(uset[key], slot))
                        ELSE MapSet(uset, key, slot),
                        Tail(data))

NewSet(data) == NewSetLoop(EmptyMap, data)

RECURSIVE slots_loop(_, _)
slots_loop(u, result) ==
    IF u = Zero THEN result
    ELSE LET idx == TrailingZeros64(u)
         IN  slots_loop(BitAndNot(u, two_to_power_n_minus_1(idx)),
                        Append(result, idx))

slots_from_uint64(u) == IF u = Zero THEN <<0>> ELSE slots_loop(u, <<>>)

\* The values one key contributes to Slice, in the order of its bits.
SliceOfKey(key, bits) ==
    LET m == WordBits * key.multiplier
        vals == slots_from_uint64(bits)
    IN  [i \in 1..Len(vals) |->
            IF key.is_positive THEN m + vals[i] ELSE -(m + vals[i])]

\* Slice ranges over the map in an order Go leaves unspecified; keyorder
\* is the order of one run.
RECURSIVE SliceIn(_, _)
SliceIn(data, keyorder) ==
    IF keyorder = <<>> THEN <<>>
    ELSE SliceOfKey(Head(keyorder), data[Head(keyorder)])
            \o SliceIn(data, Tail(keyorder))

KeyOrders(data) ==
    {q \in [1..Cardinality(DOMAIN data) -> DOMAIN data] :
        Range(q) = DOMAIN data}

Slice(data) == SliceIn(data, CHOOSE q \in KeyOrders(data) : TRUE)

Contains(data, item) ==
    IF Cardinality(DOMAIN data) = 0 THEN FALSE
    ELSE LET key == KeyOf(item)
             slot == SlotOf(item)
         IN  key \in DOMAIN data /\ BitAnd(data[key], slot) # Zero

\* The loop of Len counting one for every key.
LenLoop_CountsKeys(data, keys) == Cardinality(keys)

RECURSIVE LenLoop(_, _)
LenLoop(data, keys) ==
    IF keys = {} THEN 0
    ELSE LET k == CHOOSE k \in keys : TRUE
         IN  OnesCount64(data[k]) + LenLoop(data, keys \ {k})

SLen(data) == LenLoop(data, DOMAIN data)

\* IsEmpty judged by the number of keys.
IsEmpty_ByKeys(data) == Cardinality(DOMAIN data) = 0

IsEmpty(data) == SLen(data) = 0

\* Add that stores the slot over the chunk's word.
Add_Overwrite(data, item) == MapSet(data, KeyOf(item), SlotOf(item))

Add(data, item) ==
    LET key == KeyOf(item)
        slot == SlotOf(item)
    IN  IF key \in DOMAIN data
        THEN MapSet(data, key, BitOr(data[key], slot))
        ELSE MapSet(data, key, slot)

\* Remove without the test that the bit is set.
Remove_NoBitCheck(data, item) ==
    IF Cardinality(DOMAIN data) = 0
    THEN [data |-> data, err |-> ErrElementNotFound]
    ELSE LET key == KeyOf(item)
             slot == SlotOf(item)
         IN  IF key \notin DOMAIN data
             THEN [data |-> data, err |-> ErrElementNotFound]
             ELSE [data |-> MapSet(data, key, BitXor(data[key], slot)),
                   err |-> nil]

\* Remove returns the map it leaves and its error.
Remove(data, item) ==
    IF Cardinality(DOMAIN data) = 0
    THEN [data |-> data, err |-> ErrElementNotFound]
    ELSE LET key == KeyOf(item)
             slot == SlotOf(item)
         IN  IF key \notin DOMAIN data
             THEN [data |-> data, err |-> ErrElementNotFound]
             ELSE IF BitAnd(data[key], slot) = Zero
             THEN [data |-> data, err |-> ErrElementNotFound]
             ELSE [data |-> MapSet(data, key, BitXor(data[key], slot)),
                   err |-> nil]

Discard(data, item) ==
    IF Cardinality(DOMAIN data) = 0 THEN data
    ELSE LET key == KeyOf(item)
             slot == SlotOf(item)
         IN  IF key \notin DOMAIN data THEN data
             ELSE MapSet(data, key, BitXor(data[key], slot))

\* Pop takes the key the map iteration visits first: any key of the map.
\* The outcomes are the maps it can leave, with the item and error returned.
Pop(data) ==
    IF IsEmpty(data)
    THEN {[data |-> data, item |-> 0, err |-> ErrElementNotFound]}
    ELSE {LET to_return == TrailingZeros64(data[key])
          IN  [data |-> MapSet(data, key,
                           BitAndNot(data[key],
                                     two_to_power_n_minus_1(to_return))),
               item |-> to_return,
               err |-> nil] : key \in DOMAIN data}

Clear(data) == EmptyMap

RECURSIVE CopyLoop(_, _, _)
CopyLoop(copy, data, keys) ==
    IF keys = {} THEN copy
    ELSE LET key == CHOOSE k \in keys : TRUE
         IN  CopyLoop(MapSet(copy, key, data[key]), data, keys \ {key})

Copy(data) == CopyLoop(EmptyMap, data, DOMAIN data)

Equals(sd, td) ==
    IF Cardinality(DOMAIN sd) # Cardinality(DOMAIN td) THEN FALSE
    ELSE IF SLen(sd) # SLen(td) THEN FALSE
    ELSE IF \E skey \in DOMAIN sd : skey \notin DOMAIN td \/ sd[skey] # td[skey]
    THEN FALSE
    ELSE IF \E tkey \in DOMAIN td : tkey \notin DOMAIN sd THEN FALSE
    ELSE TRUE

\* The loop shared by Union and UnionInPlace: OR every word of `from`
\* into result.
RECURSIVE UnionLoop(_, _, _)
UnionLoop(result, from, keys) ==
    IF keys = {} THEN result
    ELSE LET key == CHOOSE k \in keys : TRUE
         IN  UnionLoop(IF key \in DOMAIN result
                       THEN MapSet(result, key, BitOr(result[key], from[key]))
                       ELSE MapSet(result, key, from[key]),
                       from, keys \ {key})

\* Union that merges the other operand only when s has more keys.
Union_NoMerge(sd, td) ==
    LET s_is_larger == Cardinality(DOMAIN sd) > Cardinality(DOMAIN td)
    IN  IF s_is_larger
        THEN UnionLoop(Copy(sd), td, DOMAIN td)
        ELSE Copy(td)

Union(sd, td) ==
    LET s_is_larger == Cardinality(DOMAIN sd) > Cardinality(DOMAIN td)
    IN  IF s_is_larger
        THEN UnionLoop(Copy(sd), td, DOMAIN td)
        ELSE UnionLoop(Copy(td), sd, DOMAIN sd)

UnionInPlace(sd, td) == UnionLoop(sd, td, DOMAIN td)

\* The loop of Intersection: for every key of `small` that `large` has,
\* keep the AND of the two words unless it is zero.
RECURSIVE IntersectionLoop(_, _, _, _)
IntersectionLoop(data, small, large, keys) ==
    IF keys = {} THEN data
    ELSE LET key == CHOOSE k \in keys : TRUE
         IN  IntersectionLoop(
                 IF key \in DOMAIN large
                    /\ BitAnd(small[key], large[key]) # Zero
                 THEN MapSet(data, key, BitAnd(small[key], large[key]))
                 ELSE data,
                 small, large, keys \ {key})

\* Intersection that keeps s's whole word when s has fewer keys.
Intersection_KeepsWord(sd, td) ==
    IF Cardinality(DOMAIN sd) < Cardinality(DOMAIN td)
    THEN [key \in {k \in DOMAIN sd :
                    k \in DOMAIN td /\ BitAnd(sd[k], td[k]) # Zero}
            |-> sd[key]]
    ELSE IntersectionLoop(EmptyMap, td, sd, DOMAIN td)

Intersection(sd, td) ==
    IF Cardinality(DOMAIN sd) < Cardinality(DOMAIN td)
    THEN IntersectionLoop(EmptyMap, sd, td, DOMAIN sd)
    ELSE IntersectionLoop(EmptyMap, td, sd, DOMAIN td)

\* The loop of IntersectionInPlace storing the AND even when it is zero.
RECURSIVE IntersectionInPlaceLoop_StoresZero(_, _, _)
IntersectionInPlaceLoop_StoresZero(sd, td, keys) ==
    IF keys = {} THEN sd
    ELSE LET skey == CHOOSE k \in keys : TRUE
         IN  IntersectionInPlaceLoop_StoresZero(
                 IF skey \in DOMAIN td
                 THEN MapSet(sd, skey, BitAnd(sd[skey], td[skey]))
                 ELSE MapDelete(sd, skey),
                 td, keys \ {skey})

RECURSIVE IntersectionInPlaceLoop(_, _, _)
IntersectionInPlaceLoop(sd, td, keys) ==
    IF keys = {} THEN sd
    ELSE LET skey == CHOOSE k \in keys : TRUE
         IN  IntersectionInPlaceLoop(
                 IF skey \in DOMAIN td
                 THEN IF BitAnd(sd[skey], td[skey]) = Zero
                      THEN MapDelete(sd, skey)
                      ELSE MapSet(sd, skey, BitAnd(sd[skey], td[skey]))
                 ELSE MapDelete(sd, skey),
                 td, keys \ {skey})

IntersectionInPlace(sd, td) == IntersectionInPlaceLoop(sd, td, DOMAIN sd)

IsDisjoint(sd, td) ==
    IF Cardinality(DOMAIN sd) < Cardinality(DOMAIN td)
    THEN ~\E skey \in DOMAIN sd :
            skey \in DOMAIN td /\ BitAnd(sd[skey], td[skey]) # Zero
    ELSE ~\E tkey \in DOMAIN td :
            tkey \in DOMAIN sd /\ BitAnd(sd[tkey], td[tkey]) # Zero

\* The loop of IsSubsetOf and IsProperSubsetOf: false as soon as a key of
\* s is missing in t or holds a bit that t's word lacks.
SubsetLoop(sd, td) ==
    ~\E skey \in DOMAIN sd :
        IF skey \in DOMAIN td
        THEN BitAnd(sd[skey], td[skey]) # sd[skey]
        ELSE TRUE

IsSubsetOf(sd, td) == SubsetLoop(sd, td)

\* IsProperSubsetOf without the comparison of the lengths.
IsProperSubsetOf_NoLen(sd, td) == SubsetLoop(sd, td)

IsProperSubsetOf(sd, td) ==
    IF ~SubsetLoop(sd, td) THEN FALSE
    ELSE IF SLen(sd) = SLen(td) THEN FALSE
    ELSE TRUE

\* The loop of IsSuperSetOf and IsProperSuperSetOf: false as soon as a
\* key of t is missing in s or holds a bit that s's word lacks.
SuperSetLoop(sd, td) ==
    ~\E tkey \in DOMAIN td :
        IF tkey \in DOMAIN sd
        THEN BitAnd(sd[tkey], td[tkey]) # td[tkey]
        ELSE TRUE

IsSuperSetOf(sd, td) == SuperSetLoop(sd, td)

IsProperSuperSetOf(sd, td) ==
    IF ~SuperSetLoop(sd, td) THEN FALSE
    ELSE IF SLen(sd) = SLen(td) THEN FALSE
    ELSE TRUE

\* The loop shared by Difference and DifferenceInPlace.
RECURSIVE DifferenceLoop(_, _, _)
DifferenceLoop(result, td, keys) ==
    IF keys = {} THEN result
    ELSE LET tkey == CHOOSE k \in keys : TRUE
         IN  DifferenceLoop(
                 IF tkey \in DOMAIN result
                 THEN IF BitXor(result[tkey], td[tkey]) = Zero
                      THEN MapDelete(result, tkey)
                      ELSE MapSet(result, tkey,
                                  BitAndNot(result[tkey], td[tkey]))
                 ELSE result,
                 td, keys \ {tkey})

\* Difference that clears the bits and never deletes a key.
Difference_NoDelete(sd, td) ==
    [key \in DOMAIN sd |->
        IF key \in DOMAIN td THEN BitAndNot(sd[key], td[key]) ELSE sd[key]]

Difference(sd, td) == DifferenceLoop(Copy(sd), td, DOMAIN td)

DifferenceInPlace(sd, td) == DifferenceLoop(sd, td, DOMAIN td)

\* One loop of SymmetricDifference: for every key of `a`, store a ^ b
\* unless it is zero, or the word of `a` when `b` lacks the key.
RECURSIVE SymmetricDifferenceLoop(_, _, _, _)
SymmetricDifferenceLoop(data, a, b, keys) ==
    IF keys = {} THEN data
    ELSE LET key == CHOOSE k \in keys : TRUE
         IN  SymmetricDifferenceLoop(
                 IF key \in DOMAIN b
                 THEN IF BitXor(a[key], b[key]) = Zero
                      THEN data
                      ELSE MapSet(data, key, BitXor(a[key], b[key]))
                 ELSE MapSet(data, key, a[key]),
                 a, b, keys \ {key})

SymmetricDifference(sd, td) ==
    SymmetricDifferenceLoop(
        SymmetricDifferenceLoop(EmptyMap, sd, td, DOMAIN sd),
        td, sd, DOMAIN td)

RECURSIVE SymmetricDifferenceInPlaceLoop(_, _, _)
SymmetricDifferenceInPlaceLoop(sd, td, keys) ==
    IF keys = {} THEN sd
    ELSE LET tkey == CHOOSE k \in keys : TRUE
         IN  SymmetricDifferenceInPlaceLoop(
                 IF tkey \in DOMAIN sd
                 THEN IF BitXor(sd[tkey], td[tkey]) = Zero
                      THEN MapDelete(sd, tkey)
                      ELSE MapSet(sd, tkey, BitXor(sd[tkey], td[tkey]))
                 ELSE MapSet(sd, tkey, td[tkey]),
                 td, keys \ {tkey})

\* SymmetricDifferenceInPlace that never deletes a key.
SymmetricDifferenceInPlace_NoDelete(sd, td) ==
    [key \in DOMAIN sd \cup DOMAIN td |->
        IF key \notin DOMAIN td THEN sd[key]
        ELSE IF key \notin DOMAIN sd THEN td[key]
        ELSE BitXor(sd[key], td[key])]

SymmetricDifferenceInPlace(sd, td) ==
    SymmetricDifferenceInPlaceLoop(sd, td, DOMAIN td)

----------------------------------------------------------------------------
\* The hash-based reference set (src/set.go) on ints. A Set is the key set
\* of its map.

Ref_NewSet(data) == Range(data)

\* Slice ranges over the map in an unspecified order.
RECURSIVE Ref_SliceLoop(_)
Ref_SliceLoop(items) ==
    IF items = {} THEN <<>>
    ELSE LET v == CHOOSE v \in items : TRUE
         IN  <<v>> \o Ref_SliceLoop(items \ {v})

Ref_Slice(data) == Ref_SliceLoop(data)

Ref_Contains(data, item) == item \in data

Ref_Len(data) == Cardinality(data)

Ref_IsEmpty(data) == Ref_Len(data) = 0

Ref_Add(data, item) == data \cup {item}

Ref_Remove(data, item) ==
    IF ~Ref_Contains(data, item)
    THEN [data |-> data, err |-> ErrElementNotFound]
    ELSE [data |-> data \ {item}, err |-> nil]

Ref_Discard(data, item) == data \ {item}

Ref_Pop(data) ==
    IF Ref_IsEmpty(data)
    THEN {[data |-> data, item |-> 0, err |-> ErrElementNotFound]}
    ELSE {[data |-> Ref_Discard(data, item), item |-> item, err |-> nil] :
            item \in data}

Ref_Copy(data) == {v : v \in data}

\* The loop shared by Difference and DifferenceInPlace: Discard every
\* item of t from result.
RECURSIVE Ref_DifferenceLoop(_, _)
Ref_DifferenceLoop(result, items) ==
    IF items = {} THEN result
    ELSE LET v == CHOOSE v \in items : TRUE
         IN  Ref_DifferenceLoop(Ref_Discard(result, v), items \ {v})

Ref_Difference(sd, td) == Ref_DifferenceLoop(Ref_Copy(sd), td)

Ref_DifferenceInPlace(sd, td) == Ref_DifferenceLoop(sd, td)

----------------------------------------------------------------------------
\* The dense set (package bitset, a slice of bools). bits is a sequence:
\* Go's bits[i] is bits[i + 1] here.

DenseSet(bits, smallest_item, n_items) ==
    [bits |-> bits, smallest_item |-> smallest_item, n_items |-> n_items]

\* make([]bool, n): n false entries.
MakeBools(n) == [i \in 1..n |-> FALSE]

\* The running minimum and maximum of NewSet's first loop.
RECURSIVE MinOf(_, _)
MinOf(data, min) ==
    IF data = <<>> THEN min
    ELSE MinOf(Tail(data), IF Head(data) < min THEN Head(data) ELSE min)

RECURSIVE MaxOf(_, _)
MaxOf(data, max) ==
    IF data = <<>> THEN max
    ELSE MaxOf(Tail(data), IF Head(data) > max THEN Head(data) ELSE max)

\* NewSet's second loop: bits[v-min] = true for every v of data.
RECURSIVE FillBits(_, _, _)
FillBits(bits, data, min) ==
    IF data = <<>> THEN bits
    ELSE FillBits([bits EXCEPT ![Head(data) - min + 1] = TRUE],
                  Tail(data), min)

Dense_NewSet(data) ==
    IF Len(data) = 0 THEN DenseSet(<<>>, 0, 0)
    ELSE LET min == MinOf(data, data[1])
             max == MaxOf(data, data[1])
             unique_nums == Range(data)
             min_max_range == IF max = min THEN 1 ELSE abs(max - min) + 1
         IN  DenseSet(FillBits(MakeBools(min_max_range), data, min),
                      min, Cardinality(unique_nums))

\* Slice's loop visits idx = 0, 1, ... in order and appends
\* idx + smallest_item for every true entry.
Dense_Slice(s) ==
    LET indices == [i \in 1..Len(s.bits) |-> i - 1]
        kept == SelectSeq(indices, LAMBDA idx : s.bits[idx + 1])
    IN  [i \in 1..Len(kept) |-> kept[i] + s.smallest_item]

\* fmt.Sprintf("%v", n) of an int: its decimal digits after the sign.
Digits == <<"0", "1", "2", "3", "4", "5", "6", "7", "8", "9">>

RECURSIVE SprintNat(_)
SprintNat(n) ==
    IF n < 10 THEN Digits[n + 1]
    ELSE SprintNat(n \div 10) \o Digits[(n % 10) + 1]

Sprintf(n) == IF n < 0 THEN "-" \o SprintNat(-n) ELSE SprintNat(n)

\* String's loop over the true entries in ascending idx (a false entry
\* writes nothing): the item, followed by ", " unless idx is the last
\* index of bits.
RECURSIVE Dense_StringLoop(_, _)
Dense_StringLoop(s, idxs) ==
    IF idxs = <<>> THEN ""
    ELSE LET idx == Head(idxs)
             last_index == Len(s.bits) - 1
         IN  (IF idx < last_index
              THEN Sprintf(idx + s.smallest_item) \o ", "
              ELSE Sprintf(idx + s.smallest_item))
             \o Dense_StringLoop(s, Tail(idxs))

Dense_String(s) ==
    LET indices == [i \in 1..Len(s.bits) |-> i - 1]
        kept == SelectSeq(indices, LAMBDA idx : s.bits[idx + 1])
    IN  "{" \o Dense_StringLoop(s, kept) \o "}"

Dense_Len(s) == s.n_items

Dense_IsEmpty(s) == Dense_Len(s) = 0

under_lower_bound(s, item) == item < s.smallest_item

get_upper_value(s) == s.smallest_item + Len(s.bits) - 1

over_upper_bound(s, item) == item > get_upper_value(s)

calc_idx_of_item(s, item) == item - s.smallest_item

Dense_Contains(s, item) ==
    IF Dense_IsEmpty(s) THEN FALSE
    ELSE IF under_lower_bound(s, item) THEN FALSE
    ELSE IF over_upper_bound(s, item) THEN FALSE
    ELSE s.bits[calc_idx_of_item(s, item) + 1]

\* Add that counts the item in its last branch whether or not it was there.
Dense_Add_AlwaysCounts(s, item) ==
    IF item < s.smallest_item
    THEN DenseSet([MakeBools(s.smallest_item - item) EXCEPT ![1] = TRUE]
                    \o s.bits, item, s.n_items + 1)
    ELSE IF over_upper_bound(s, item)
    THEN DenseSet(s.bits \o [MakeBools(item - get_upper_value(s))
                                EXCEPT ![item - get_upper_value(s)] = TRUE],
                  s.smallest_item, s.n_items + 1)
    ELSE DenseSet([s.bits EXCEPT ![calc_idx_of_item(s, item) + 1] = TRUE],
                  s.smallest_item, s.n_items + 1)

Dense_Add(s, item) ==
    IF item < s.smallest_item
    THEN LET new_items == s.smallest_item - item
             to_add_to_front == [MakeBools(new_items) EXCEPT ![1] = TRUE]
         IN  DenseSet(to_add_to_front \o s.bits, item, s.n_items + 1)
    ELSE IF over_upper_bound(s, item)
    THEN LET new_items == item - get_upper_value(s)
             to_append == [MakeBools(new_items) EXCEPT ![new_items] = TRUE]
         IN  DenseSet(s.bits \o to_append, s.smallest_item, s.n_items + 1)
    ELSE DenseSet([s.bits EXCEPT ![calc_idx_of_item(s, item) + 1] = TRUE],
                  s.smallest_item,
                  IF ~Dense_Contains(s, item) THEN s.n_items + 1
                  ELSE s.n_items)

\* The Go indices that hold true.
TrueIdx(bits) == {idx \in 0..(Len(bits) - 1) : bits[idx + 1]}

SetMax(S) == CHOOSE x \in S : \A y \in S : y <= x

\* Removal that trims the front of the slice and keeps smallest_item.
RemoveMember_KeepsSmallest(s, item) ==
    LET bits == [s.bits EXCEPT ![calc_idx_of_item(s, item) + 1] = FALSE]
        cleared == DenseSet(bits, s.smallest_item, s.n_items - 1)
    IN  IF item = s.smallest_item /\ TrueIdx(bits) # {}
        THEN DenseSet(SubSeq(bits, SetMin(TrueIdx(bits)) + 1, Len(bits)),
                      s.smallest_item, cleared.n_items)
        ELSE cleared

\* What Remove and Discard do once the item is known to be a member:
\* clear the bit, decrement n_items, then trim the slice at the end the
\* item was on, up to the next true entry if there is one.
RemoveMember(s, item) ==
    LET bits == [s.bits EXCEPT ![calc_idx_of_item(s, item) + 1] = FALSE]
        cleared == DenseSet(bits, s.smallest_item, s.n_items - 1)
    IN  IF item = s.smallest_item
        THEN IF TrueIdx(bits) = {} THEN cleared
             ELSE LET idx == SetMin(TrueIdx(bits))
                  IN  DenseSet(SubSeq(bits, idx + 1, Len(bits)),
                               item + idx, cleared.n_items)
        ELSE IF item = get_upper_value(cleared)
        THEN IF TrueIdx(bits) = {} THEN cleared
             ELSE LET idx == SetMax(TrueIdx(bits))
                  IN  DenseSet(SubSeq(bits, 1, idx + 1),
                               cleared.smallest_item, cleared.n_items)
        ELSE cleared

Dense_Remove(s, item) ==
    IF ~Dense_Contains(s, item)
    THEN [set |-> s, err |-> ErrElementNotFound]
    ELSE [set |-> RemoveMember(s, item), err |-> nil]

Dense_Discard(s, item) ==
    IF ~Dense_Contains(s, item) THEN s
    ELSE RemoveMember(s, item)

\* A Go index expression bits[idx] faults when idx is outside
\* 0 .. len(bits) - 1.
OutOfRange(bits, idx) == idx < 0 \/ idx >= Len(bits)

\* Contains indexes bits once, after its three early returns.
Dense_ContainsFaults(s, item) ==
    /\ ~Dense_IsEmpty(s)
    /\ ~under_lower_bound(s, item)
    /\ ~over_upper_bound(s, item)
    /\ OutOfRange(s.bits, calc_idx_of_item(s, item))

\* Add indexes the slice it makes (at 0, or at its last position) in the
\* two growing branches, and bits itself, after Contains, in the third.
Dense_AddFaults(s, item) ==
    IF item < s.smallest_item
    THEN OutOfRange(MakeBools(s.smallest_item - item), 0)
    ELSE IF over_upper_bound(s, item)
    THEN LET new_items == item - get_upper_value(s)
         IN  OutOfRange(MakeBools(new_items), new_items - 1)
    ELSE \/ Dense_ContainsFaults(s, item)
         \/ OutOfRange(s.bits, calc_idx_of_item(s, item))

\* Remove and Discard index bits after Contains returned true; their
\* trimming loops stay inside the slice.
Dense_DiscardFaults(s, item) ==
    \/ Dense_ContainsFaults(s, item)
    \/ /\ Dense_Contains(s, item)
       /\ OutOfRange(s.bits, calc_idx_of_item(s, item))

\* Slice ranges over bits and indexes nothing else.
Dense_SliceFaults(s) ==
    \E idx \in 0..(Len(s.bits) - 1) : OutOfRange(s.bits, idx)

\* Equals, as [panics, result]: after the comparisons of Len() and of
\* smallest_item, the loop walks s.bits from idx = 0 and reads t.bits[idx];
\* it stops at the first idx where that read is out of range (an
\* index-out-of-range panic) or where the two entries differ (false).
Dense_Equals(s, t) ==
    IF Dense_Len(s) # Dense_Len(t)
    THEN [panics |-> FALSE, result |-> FALSE]
    ELSE IF s.smallest_item # t.smallest_item
    THEN [panics |-> FALSE, result |-> FALSE]
    ELSE LET stops == {idx \in 0..(Len(s.bits) - 1) :
                        \/ OutOfRange(t.bits, idx)
                        \/ t.bits[idx + 1] # s.bits[idx + 1]}
         IN  IF stops = {} THEN [panics |-> FALSE, result |-> TRUE]
             ELSE IF OutOfRange(t.bits, SetMin(stops))
             THEN [panics |-> TRUE, result |-> FALSE]
             ELSE [panics |-> FALSE, result |-> FALSE]

----------------------------------------------------------------------------
\* State: the sets under test and the record of the last call.
\*   s, t  sparse sets (their data maps)
\*   r     the reference set
\*   d     the dense set
\*   op    the last operation called, arg its integer argument, inp the
\*         input sequence when it was NewSet
\*   err   the error each set's call returned, ret the item each Pop
\*         returned, res the set a constructor (Union, ...) returned
\*   pre   the sets as they were before the call
\*   u     the reference set built from the input of t
\*   rres  the set a constructor of the reference set returned
VARIABLES s, t, r, d, op, arg, inp, err, ret, res, pre, u, rres,
          mem, at, rcv, rep

vars == <<s, t, r, d, op, arg, inp, err, ret, res, pre, u, rres,
          mem, at, rcv, rep>>

\* The runs that follow the sets by value keep no storage, no receiver
\* and no decomposition.
NoMem == <<>>
NoAt == [s |-> 0, t |-> 0]
NoRcv == "none"
NoRep == [is_positive |-> TRUE, multiplier |-> 0, slot |-> Zero]
ByValue == mem = NoMem /\ at = NoAt /\ rcv = NoRcv /\ rep = NoRep

NoErr == [sparse |-> nil, ref |-> nil, dense |-> nil]
NoRet == [sparse |-> 0, ref |-> 0]
Now == [s |-> s, t |-> t, r |-> r, d |-> d]

\* The record of a call: its name, argument, errors, returned items and
\* returned set, and the sets before it.
Called(o, a, e, rt, rs) ==
    /\ op' = o
    /\ arg' = a
    /\ inp' = <<>>
    /\ err' = e
    /\ ret' = rt
    /\ res' = rs
    /\ pre' = Now
    /\ u' = u
    /\ rres' = {}
    /\ UNCHANGED <<mem, at, rcv, rep>>

Constructed(xs, ys, rd, dd) ==
    /\ s = NewSet(xs)
    /\ t = NewSet(ys)
    /\ r = Ref_NewSet(rd)
    /\ d = Dense_NewSet(dd)
    /\ op = "NewSet"
    /\ arg = 0
    /\ inp = xs
    /\ err = NoErr
    /\ ret = NoRet
    /\ res = EmptyMap
    /\ pre = [s |-> s, t |-> t, r |-> r, d |-> d]
    /\ u = {}
    /\ rres = {}
    /\ ByValue

----------------------------------------------------------------------------
\* The three representations built from one input and driven by the same
\* Add, Remove and Discard calls (FuzzAdd, FuzzRemoveDiscard).

InitLock == \E xs \in WideInputs : Constructed(xs, <<>>, xs, xs)

LAdd(x) ==
    /\ s' = Add(s, x)
    /\ r' = Ref_Add(r, x)
    /\ d' = Dense_Add(d, x)
    /\ t' = t
    /\ Called("Add", x, NoErr, NoRet, EmptyMap)

LRemove(x) ==
    LET sr == Remove(s, x)
        rr == Ref_Remove(r, x)
        dr == Dense_Remove(d, x)
    IN  /\ s' = sr.data
        /\ r' = rr.data
        /\ d' = dr.set
        /\ t' = t
        /\ Called("Remove", x,
                  [sparse |-> sr.err, ref |-> rr.err, dense |-> dr.err],
                  NoRet, EmptyMap)

LDiscard(x) ==
    /\ s' = Discard(s, x)
    /\ r' = Ref_Discard(r, x)
    /\ d' = Dense_Discard(d, x)
    /\ t' = t
    /\ Called("Discard", x, NoErr, NoRet, EmptyMap)

NextLock == \E x \in Wide : LAdd(x) \/ LRemove(x) \/ LDiscard(x)

SpecLock == InitLock /\ [][NextLock]_vars

----------------------------------------------------------------------------
\* The sparse set and the reference set under Add, Remove, Discard and Pop
\* (TestPop of both packages). Each Pop takes the item its own map
\* iteration yields.

InitPop == \E xs \in WideInputs : Constructed(xs, <<>>, xs, <<>>)

PAdd(x) ==
    /\ s' = Add(s, x)
    /\ r' = Ref_Add(r, x)
    /\ UNCHANGED <<t, d>>
    /\ Called("Add", x, NoErr, NoRet, EmptyMap)

PRemove(x) ==
    LET sr == Remove(s, x)
        rr == Ref_Remove(r, x)
    IN  /\ s' = sr.data
        /\ r' = rr.data
        /\ UNCHANGED <<t, d>>
        /\ Called("Remove", x,
                  [sparse |-> sr.err, ref |-> rr.err, dense |-> nil],
                  NoRet, EmptyMap)

PDiscard(x) ==
    /\ s' = Discard(s, x)
    /\ r' = Ref_Discard(r, x)
    /\ UNCHANGED <<t, d>>
    /\ Called("Discard", x, NoErr, NoRet, EmptyMap)

PPop ==
    \E sp \in Pop(s), rp \in Ref_Pop(r) :
        /\ s' = sp.data
        /\ r' = rp.data
        /\ UNCHANGED <<t, d>>
        /\ Called("Pop", 0,
                  [sparse |-> sp.err, ref |-> rp.err, dense |-> nil],
                  [sparse |-> sp.item, ref |-> rp.item], EmptyMap)

NextPop == PPop \/ \E x \in Wide : PAdd(x) \/ PRemove(x) \/ PDiscard(x)

SpecPop == InitPop /\ [][NextPop]_vars

----------------------------------------------------------------------------
\* Two sparse sets, each built by NewSet and then changed by any of the
\* sparse set's operations; the constructors leave their result in res.

Targets == {"s", "t"}

Cur(tgt) == IF tgt = "s" THEN s ELSE t
Other(tgt) == IF tgt = "s" THEN t ELSE s

\* The receiver tgt becomes new; the other sparse set stays as it is.
Becomes(tgt, new) ==
    /\ s' = IF tgt = "s" THEN new ELSE s
    /\ t' = IF tgt = "t" THEN new ELSE t
    /\ UNCHANGED <<r, d>>

Init == \E xs \in Inputs, ys \in Inputs : Constructed(xs, ys, <<>>, <<>>)

SAdd(tgt, x) ==
    /\ Becomes(tgt, Add(Cur(tgt), x))
    /\ Called("Add", x, NoErr, NoRet, EmptyMap)

SRemove(tgt, x) ==
    LET sr == Remove(Cur(tgt), x)
    IN  /\ Becomes(tgt, sr.data)
        /\ Called("Remove", x, [NoErr EXCEPT !.sparse = sr.err],
                  NoRet, EmptyMap)

SDiscard(tgt, x) ==
    /\ Becomes(tgt, Discard(Cur(tgt), x))
    /\ Called("Discard", x, NoErr, NoRet, EmptyMap)

SPop(tgt) ==
    \E sp \in Pop(Cur(tgt)) :
        /\ Becomes(tgt, sp.data)
        /\ Called("Pop", 0, [NoErr EXCEPT !.sparse = sp.err],
                  [NoRet EXCEPT !.sparse = sp.item], EmptyMap)

SClear(tgt) ==
    /\ Becomes(tgt, Clear(Cur(tgt)))
    /\ Called("Clear", 0, NoErr, NoRet, EmptyMap)

\* t = s.Copy(): the copy replaces the other set.
SCopy(tgt) ==
    /\ s' = IF tgt = "t" THEN Copy(t) ELSE s
    /\ t' = IF tgt = "s" THEN Copy(s) ELSE t
    /\ UNCHANGED <<r, d>>
    /\ Called("Copy", 0, NoErr, NoRet, EmptyMap)

SUnion ==
    /\ UNCHANGED <<s, t, r, d>>
    /\ Called("Union", 0, NoErr, NoRet, Union(s, t))

SIntersection ==
    /\ UNCHANGED <<s, t, r, d>>
    /\ Called("Intersection", 0, NoErr, NoRet, Intersection(s, t))

SDifference ==
    /\ UNCHANGED <<s, t, r, d>>
    /\ Called("Difference", 0, NoErr, NoRet, Difference(s, t))

SSymmetricDifference ==
    /\ UNCHANGED <<s, t, r, d>>
    /\ Called("SymmetricDifference", 0, NoErr, NoRet,
              SymmetricDifference(s, t))

SUnionInPlace(tgt) ==
    /\ Becomes(tgt, UnionInPlace(Cur(tgt), Other(tgt)))
    /\ Called("UnionInPlace", 0, NoErr, NoRet, EmptyMap)

SIntersectionInPlace(tgt) ==
    /\ Becomes(tgt, IntersectionInPlace(Cur(tgt), Other(tgt)))
    /\ Called("IntersectionInPlace", 0, NoErr, NoRet, EmptyMap)

SDifferenceInPlace(tgt) ==
    /\ Becomes(tgt, DifferenceInPlace(Cur(tgt), Other(tgt)))
    /\ Called("DifferenceInPlace", 0, NoErr, NoRet, EmptyMap)

SSymmetricDifferenceInPlace(tgt) ==
    /\ Becomes(tgt, SymmetricDifferenceInPlace(Cur(tgt), Other(tgt)))
    /\ Called("SymmetricDifferenceInPlace", 0, NoErr, NoRet, EmptyMap)

Next ==
    \/ SUnion
    \/ SIntersection
    \/ SDifference
    \/ SSymmetricDifference
    \/ \E tgt \in Targets :
        \/ SPop(tgt)
        \/ SClear(tgt)
        \/ SCopy(tgt)
        \/ SUnionInPlace(tgt)
        \/ SIntersectionInPlace(tgt)
        \/ SDifferenceInPlace(tgt)
        \/ SSymmetricDifferenceInPlace(tgt)
        \/ \E x \in Vals : SAdd(tgt, x) \/ SRemove(tgt, x) \/ SDiscard(tgt, x)

Spec == Init /\ [][Next]_vars

----------------------------------------------------------------------------
\* Two sparse sets and two reference sets built by NewSet from the same two
\* inputs, then the same set operation on both pairs (FuzzDifference,
\* FuzzDifferenceInPlace). The operations are called on the sets as NewSet
\* built them.

InitAlg ==
    \E xs \in Inputs, ys \in Inputs :
        /\ s = NewSet(xs)
        /\ t = NewSet(ys)
        /\ r = Ref_NewSet(xs)
        /\ u = Ref_NewSet(ys)
        /\ d = Dense_NewSet(<<>>)
        /\ op = "NewSet"
        /\ arg = 0
        /\ inp = xs
        /\ err = NoErr
        /\ ret = NoRet
        /\ res = EmptyMap
        /\ rres = {}
        /\ pre = [s |-> s, t |-> t, r |-> r, d |-> d]
        /\ ByValue

AsBuilt == op \in {"NewSet", "Difference"}

ADifference ==
    /\ AsBuilt
    /\ UNCHANGED <<s, t, r, d, u>>
    /\ op' = "Difference"
    /\ arg' = 0
    /\ inp' = <<>>
    /\ err' = NoErr
    /\ ret' = NoRet
    /\ res' = Difference(s, t)
    /\ rres' = Ref_Difference(r, u)
    /\ pre' = Now
    /\ UNCHANGED <<mem, at, rcv, rep>>

ADifferenceInPlace ==
    /\ AsBuilt
    /\ s' = DifferenceInPlace(s, t)
    /\ r' = Ref_DifferenceInPlace(r, u)
    /\ UNCHANGED <<t, d, u>>
    /\ op' = "DifferenceInPlace"
    /\ arg' = 0
    /\ inp' = <<>>
    /\ err' = NoErr
    /\ ret' = NoRet
    /\ res' = EmptyMap
    /\ rres' = {}
    /\ pre' = Now
    /\ UNCHANGED <<mem, at, rcv, rep>>

NextAlg == ADifference \/ ADifferenceInPlace

SpecAlg == InitAlg /\ [][NextAlg]_vars

----------------------------------------------------------------------------
\* Two sparse sets followed through their storage. A Set value holds a
\* reference to its map: mem is the maps by address, at the address each
\* set's data field holds; s and t are the maps found there. A method
\* with a pointer receiver writes into the receiver's map; make() yields
\* an address no set holds.

\* The integers the stored sets are called with.
Few == {-1, 0, 1}

FewInputs == UNION {[1..n -> Few] : n \in 0..(MaxLen - 1)}

Addrs == {1, 2, 3}

\* make(map[key]uint64): an address that neither set holds.
Fresh == SetMin(Addrs \ {at.s, at.t})

\* A write into the map at address a.
Store(m, a, v) == [m EXCEPT ![a] = v]

\* Maps no set refers to any more are collected.
Collect(m, live) == [a \in Addrs |-> IF a \in live THEN m[a] ELSE EmptyMap]

\* Copy that returns the receiver's own map.
CopyAddr_Alias(a, fresh) == a

\* Copy returns Set{data: copy}, where copy is the map it made.
CopyAddr(a, fresh) == fresh

\* The address of the map a constructor fills and returns: Union and
\* Difference fill a Copy (Union of the operand with more keys, else of
\* t), Intersection and SymmetricDifference a map they make.
ResultAddr(o, a, b, fresh) ==
    IF o = "Union"
    THEN IF Cardinality(DOMAIN mem[a]) > Cardinality(DOMAIN mem[b])
         THEN CopyAddr(a, fresh)
         ELSE CopyAddr(b, fresh)
    ELSE IF o = "Difference" THEN CopyAddr(a, fresh)
    ELSE fresh

\* The map a constructor leaves in the map it fills.
ResultOf(o, sd, td) ==
    IF o = "Union" THEN Union(sd, td)
    ELSE IF o = "Intersection" THEN Intersection(sd, td)
    ELSE IF o = "Difference" THEN Difference(sd, td)
    ELSE SymmetricDifference(sd, td)

\* The map an in-place operation leaves in the receiver's map.
InPlaceOf(o, sd, td) ==
    IF o = "UnionInPlace" THEN UnionInPlace(sd, td)
    ELSE IF o = "IntersectionInPlace" THEN IntersectionInPlace(sd, td)
    ELSE IF o = "DifferenceInPlace" THEN DifferenceInPlace(sd, td)
    ELSE SymmetricDifferenceInPlace(sd, td)

Constructors ==
    {"Union", "Intersection", "Difference", "SymmetricDifference"}

InPlaces ==
    {"UnionInPlace", "IntersectionInPlace", "DifferenceInPlace",
     "SymmetricDifferenceInPlace"}

Oth(tgt) == IF tgt = "s" THEN "t" ELSE "s"

\* The storage after a call, and the record of the call.
Stored(m, a, o, tgt, x, e, rt, rs) ==
    /\ mem' = Collect(m, {a.s, a.t})
    /\ at' = a
    /\ s' = mem'[a.s]
    /\ t' = mem'[a.t]
    /\ op' = o
    /\ rcv' = tgt
    /\ arg' = x
    /\ inp' = <<>>
    /\ err' = e
    /\ ret' = rt
    /\ res' = rs
    /\ pre' = Now
    /\ UNCHANGED <<r, d, u, rres, rep>>

\* s is built by NewSet and t is s.Copy().
InitHeap ==
    \E xs \in FewInputs :
        /\ at = [s |-> 1, t |-> CopyAddr(1, 2)]
        /\ mem = Collect(Store(Store([a \in Addrs |-> EmptyMap],
                                     1, NewSet(xs)),
                               at.t, Copy(NewSet(xs))),
                         {at.s, at.t})
        /\ s = mem[at.s]
        /\ t = mem[at.t]
        /\ r = {}
        /\ d = Dense_NewSet(<<>>)
        /\ u = {}
        /\ rres = {}
        /\ rep = NoRep
        /\ op = "Copy"
        /\ rcv = "s"
        /\ arg = 0
        /\ inp = xs
        /\ err = NoErr
        /\ ret = NoRet
        /\ res = EmptyMap
        /\ pre = [s |-> s, t |-> s, r |-> r, d |-> d]

HAdd(tgt, x) ==
    Stored(Store(mem, at[tgt], Add(mem[at[tgt]], x)), at,
           "Add", tgt, x, NoErr, NoRet, EmptyMap)

HRemove(tgt, x) ==
    LET rm == Remove(mem[at[tgt]], x)
    IN  Stored(Store(mem, at[tgt], rm.data), at,
               "Remove", tgt, x, [NoErr EXCEPT !.sparse = rm.err], NoRet,
               EmptyMap)

HDiscard(tgt, x) ==
    Stored(Store(mem, at[tgt], Discard(mem[at[tgt]], x)), at,
           "Discard", tgt, x, NoErr, NoRet, EmptyMap)

HPop(tgt) ==
    \E sp \in Pop(mem[at[tgt]]) :
        Stored(Store(mem, at[tgt], sp.data), at,
               "Pop", tgt, 0, [NoErr EXCEPT !.sparse = sp.err],
               [NoRet EXCEPT !.sparse = sp.item], EmptyMap)

\* Clear points the receiver at a map it makes.
HClear(tgt) ==
    Stored(Store(mem, Fresh, Clear(mem[at[tgt]])),
           [at EXCEPT ![tgt] = Fresh],
           "Clear", tgt, 0, NoErr, NoRet, EmptyMap)

\* other = tgt.Copy(): the other set now holds the copy.
HCopy(tgt) ==
    LET c == CopyAddr(at[tgt], Fresh)
    IN  Stored(Store(mem, c, Copy(mem[at[tgt]])),
               [at EXCEPT ![Oth(tgt)] = c],
               "Copy", tgt, 0, NoErr, NoRet, EmptyMap)

\* tgt.X(other) for a constructor X: the returned set is recorded and
\* then dropped.
HConstruct(o, tgt) ==
    LET ra == ResultAddr(o, at[tgt], at[Oth(tgt)], Fresh)
        out == ResultOf(o, mem[at[tgt]], mem[at[Oth(tgt)]])
    IN  Stored(Store(mem, ra, out), at, o, tgt, 0, NoErr, NoRet, out)

\* tgt.XInPlace(other).
HInPlace(o, tgt) ==
    Stored(Store(mem, at[tgt],
                 InPlaceOf(o, mem[at[tgt]], mem[at[Oth(tgt)]])),
           at, o, tgt, 0, NoErr, NoRet, EmptyMap)

NextHeap ==
    \E tgt \in Targets :
        \/ \E x \in Few : HAdd(tgt, x) \/ HRemove(tgt, x) \/ HDiscard(tgt, x)
        \/ HPop(tgt)
        \/ HClear(tgt)
        \/ HCopy(tgt)
        \/ \E o \in Constructors : HConstruct(o, tgt)
        \/ \E o \in InPlaces : HInPlace(o, tgt)

SpecHeap == InitHeap /\ [][NextHeap]_vars

----------------------------------------------------------------------------
\* number_to_bitset_representation applied to one integer at a time
\* (TestNumber_to_bitset_representation).

RepRange == (-RepMax)..RepMax

InitRep ==
    \E n \in RepRange :
        /\ arg = n
        /\ op = "input"
        /\ rep = NoRep
        /\ s = EmptyMap
        /\ t = EmptyMap
        /\ r = {}
        /\ d = Dense_NewSet(<<>>)
        /\ u = {}
        /\ rres = {}
        /\ inp = <<>>
        /\ err = NoErr
        /\ ret = NoRet
        /\ res = EmptyMap
        /\ pre = [s |-> s, t |-> t, r |-> r, d |-> d]
        /\ mem = NoMem
        /\ at = NoAt
        /\ rcv = NoRcv

Represent ==
    /\ op = "input"
    /\ rep' = number_to_bitset_representation(arg)
    /\ op' = "number_to_bitset_representation"
    /\ UNCHANGED <<s, t, r, d, arg, inp, err, ret, res, pre, u, rres,
                   mem, at, rcv>>

NextRep == Represent

SpecRep == InitRep /\ [][NextRep]_vars

----------------------------------------------------------------------------
\* Observations the properties are stated with.

\* The integers Contains reports as members.
Members(data) == {x \in Universe : Contains(data, x)}

Dense_Members(ds) == {x \in Universe : Dense_Contains(ds, x)}

\* The distinct values of xs in ascending order, as the tests compute it.
SortedDistinct(xs) == Compact(SortSeq(xs))

----------------------------------------------------------------------------
\* C1: after every Add, Remove or Discard applied to both, the sorted
\* Slice() of the sparse set equals the sorted Slice() of the reference
\* set built from the same input.
C1_SortedSliceAgrees == SortSeq(Slice(s)) = SortSeq(Ref_Slice(r))

\* C2: the set each constructor returns has the expected membership:
\* Union is "in s or in t", Intersection "in both", Difference "in s and
\* not in t", SymmetricDifference "in exactly one".
C2_AlgebraMembership ==
    /\ op = "Union" =>
        \A x \in Universe :
            Contains(res, x) <=> (Contains(s, x) \/ Contains(t, x))
    /\ op = "Intersection" =>
        \A x \in Universe :
            Contains(res, x) <=> (Contains(s, x) /\ Contains(t, x))
    /\ op = "Difference" =>
        \A x \in Universe :
            Contains(res, x) <=> (Contains(s, x) /\ ~Contains(t, x))
    /\ op = "SymmetricDifference" =>
        \A x \in Universe :
            Contains(res, x) <=> (Contains(s, x) # Contains(t, x))

\* A symmetric difference of two overlapping sets, one of which holds a
\* zero word, with a non-empty result.
C2_Witness ==
    /\ op = "SymmetricDifference"
    /\ Members(s) \cap Members(t) # {}
    /\ Members(res) # {}
    /\ \E k \in DOMAIN s : s[k] = Zero

\* C3: Discard(x) of an integer the sparse set does not contain changes
\* neither Contains(y) for any y nor Len().
C3_DiscardAbsentNoop ==
    (op = "Discard" /\ ~Contains(pre.s, arg)) =>
        /\ \A y \in Universe : Contains(s, y) = Contains(pre.s, y)
        /\ SLen(s) = SLen(pre.s)

\* C4: for the sparse and the dense set, Remove(x) returns
\* ErrElementNotFound exactly when x is not a member, and then membership
\* and Len() are unchanged; otherwise it returns nil, x is no longer a
\* member, Len() drops by one and no other integer's membership changes.
C4_Remove ==
    op = "Remove" =>
        /\ err.sparse = IF Contains(pre.s, arg) THEN nil
                        ELSE ErrElementNotFound
        /\ Members(s) = Members(pre.s) \ {arg}
        /\ SLen(s) = SLen(pre.s) - (IF Contains(pre.s, arg) THEN 1 ELSE 0)
        /\ err.dense = IF Dense_Contains(pre.d, arg) THEN nil
                       ELSE ErrElementNotFound
        /\ Dense_Members(d) = Dense_Members(pre.d) \ {arg}
        /\ Dense_Len(d) = Dense_Len(pre.d)
                            - (IF Dense_Contains(pre.d, arg) THEN 1 ELSE 0)

\* A Remove of the smallest of several members, found in both sets.
C4_Witness ==
    /\ op = "Remove"
    /\ err.sparse = nil
    /\ err.dense = nil
    /\ arg = pre.d.smallest_item
    /\ SLen(s) > 0
    /\ Dense_Len(d) > 0

\* C5: Pop() on a sparse set with Len() > 0 returns nil and an integer
\* that was a member before the call and is not one after it, and every
\* other member stays.
C5_PopReturnsMember ==
    (op = "Pop" /\ SLen(pre.s) > 0) =>
        /\ err.sparse = nil
        /\ Contains(pre.s, ret.sparse)
        /\ ~Contains(s, ret.sparse)
        /\ \A y \in Universe \ {ret.sparse} :
                Contains(pre.s, y) => Contains(s, y)

\* C6: when Pop() on a sparse set returns nil, Len() is one less than
\* before.
C6_PopLenDropsByOne ==
    (op = "Pop" /\ err.sparse = nil) => SLen(s) = SLen(pre.s) - 1

\* C7: Pop() on a set with no members returns ErrElementNotFound and
\* leaves the set as it was, for the sparse and for the reference set.
C7_PopEmpty ==
    op = "Pop" =>
        /\ Members(pre.s) = {} =>
                err.sparse = ErrElementNotFound /\ s = pre.s
        /\ pre.r = {} => err.ref = ErrElementNotFound /\ r = pre.r

\* Pop on a sparse set that lost all its members but kept a chunk key.
C7_Witness ==
    /\ op = "Pop"
    /\ err.sparse = ErrElementNotFound
    /\ err.ref = ErrElementNotFound
    /\ DOMAIN pre.s # {}

\* C8: s.Equals(t) is true exactly when s and t contain the same
\* integers.
C8_EqualsIffSameMembers == Equals(s, t) <=> (Members(s) = Members(t))

\* C9: Slice() of a sparse set lists x once when Contains(x) and never
\* otherwise, so its length is Len().
C9_SliceListsMembersOnce ==
    /\ \A x \in Universe :
            Count(Slice(s), x) = IF Contains(s, x) THEN 1 ELSE 0
    /\ Len(Slice(s)) = SLen(s)

\* C10: Slice() of NewSet(xs) holds exactly the distinct values of xs,
\* in ascending order for the dense set and after sorting for the sparse
\* set.
C10_RoundTrip ==
    op = "NewSet" =>
        /\ Dense_Slice(d) = SortedDistinct(inp)
        /\ SortSeq(Slice(s)) = SortedDistinct(inp)

\* An input with a duplicate, a negative and two values of one chunk.
C10_Witness ==
    /\ op = "NewSet"
    /\ Len(inp) = 3
    /\ inp[1] = inp[3]
    /\ inp[1] < 0
    /\ inp[2] > 0
    /\ Len(Dense_Slice(d)) = 2

\* C11: for sparse sets s and t built by NewSet, the sorted Slice() of
\* s.Difference(t), and of s after s.DifferenceInPlace(t), equals the
\* sorted Slice() of the reference set's Difference of the same inputs.
C11_DifferenceMatchesReference ==
    /\ op = "Difference" =>
            SortSeq(Slice(res)) = SortSeq(Ref_Slice(rres))
    /\ op = "DifferenceInPlace" =>
            SortSeq(Slice(s)) = SortSeq(Ref_Slice(r))

\* C12: s.IsSubsetOf(t) is true exactly when every integer s contains is
\* contained in t, and s.IsSuperSetOf(t) exactly when every integer t
\* contains is contained in s.
C12_SubsetIffInclusion ==
    /\ IsSubsetOf(s, t) <=> (Members(s) \subseteq Members(t))
    /\ IsSuperSetOf(s, t) <=> (Members(t) \subseteq Members(s))

\* C13: A.Intersection(A.Union(B)) Equals A, for A = s and B = t.
C13_Absorption == Equals(Intersection(s, Union(s, t)), s)

\* The sparse sets NewSet builds: one input, in ascending order, for every
\* set of values.
AscendingInputs ==
    {zs \in UNION {[1..n -> Vals] : n \in 0..Cardinality(Vals)} :
        \A i \in 1..(Len(zs) - 1) : zs[i] < zs[i + 1]}

BuiltSets == {NewSet(zs) : zs \in AscendingInputs}

\* The sparse sets a third operand is drawn from: the sets before the
\* last call, the last constructor's result and the sets NewSet builds.
Thirds == {pre.s, pre.t, res} \cup BuiltSets

\* C14: Union and Intersection are commutative and associative under
\* Equals, for A = s, B = t and every third set C.
C14_CommutativeAssociative ==
    /\ Equals(Union(s, t), Union(t, s))
    /\ Equals(Intersection(s, t), Intersection(t, s))
    /\ \A c \in Thirds :
        /\ Equals(Union(Union(s, t), c), Union(s, Union(t, c)))
        /\ Equals(Intersection(Intersection(s, t), c),
                  Intersection(s, Intersection(t, c)))

\* Operands with different numbers of keys, one of them with a zero word,
\* that share a member.
C14_Witness ==
    /\ Cardinality(DOMAIN s) > Cardinality(DOMAIN t)
    /\ \E k \in DOMAIN s : s[k] = Zero
    /\ Members(s) \cap Members(t) # {}
    /\ Members(s) # Members(t)
    /\ op = "Intersection"

\* C15: A.Difference(A) and A.SymmetricDifference(A) are empty: IsEmpty()
\* is true, Slice() is empty and the result Equals NewSet of the empty
\* sequence.
C15_SelfDifferenceEmpty ==
    (op \in {"Difference", "SymmetricDifference"} /\ s = t) =>
        /\ IsEmpty(res)
        /\ Slice(res) = <<>>
        /\ Equals(res, NewSet(<<>>))

\* A.Difference(A) of a set that has members and a zero word.
C15_Witness ==
    /\ op = "Difference"
    /\ s = t
    /\ Members(s) # {}
    /\ \E k \in DOMAIN s : s[k] = Zero

\* C16: every set is a subset and a superset of itself and neither a
\* proper subset nor a proper superset of itself; and for s and t as
\* NewSet built them, s.IsProperSubsetOf(t) is true exactly when every
\* member of s is in t and t has a member that s lacks.
C16_SelfAndProperSubset ==
    /\ \A a \in {s, t} :
        /\ IsSubsetOf(a, a)
        /\ IsSuperSetOf(a, a)
        /\ ~IsProperSubsetOf(a, a)
        /\ ~IsProperSuperSetOf(a, a)
    /\ op = "NewSet" =>
        (IsProperSubsetOf(s, t) <=>
            (/\ Members(s) \subseteq Members(t)
             /\ Members(t) \ Members(s) # {}))

\* NewSet-built sets of which s is a proper subset of t, in two chunks.
C16_Witness ==
    /\ op = "NewSet"
    /\ IsProperSubsetOf(s, t)
    /\ Cardinality(DOMAIN s) = 2
    /\ Cardinality(Members(t)) = 3

\* The dense sets NewSet builds from the inputs.
DenseBuilt == {Dense_NewSet(zs) : zs \in WideInputs}

\* The dense sets d is compared with: the set before the last call and
\* the sets NewSet builds.
DenseOthers == {pre.d} \cup DenseBuilt

\* s.Equals(t) returned true.
EqualsTrue(ds, dt) ==
    LET e == Dense_Equals(ds, dt) IN ~e.panics /\ e.result

\* C17: for dense sets reached by NewSet and then Add, Remove and
\* Discard, s.Equals(t) is true if and only if s and t contain the same
\* integers.
C17_DenseEqualsIffSameMembers ==
    \A o \in DenseOthers :
        /\ EqualsTrue(d, o) <=> (Dense_Members(d) = Dense_Members(o))
        /\ EqualsTrue(o, d) <=> (Dense_Members(d) = Dense_Members(o))

\* C18: in every state reached by NewSet and then Add, Remove and
\* Discard, Contains(x), Add(x), Discard(x), Slice() and Equals(t) of the
\* dense set complete without an index-out-of-range fault.
C18_DenseNeverFaults ==
    /\ \A x \in Universe :
        /\ ~Dense_ContainsFaults(d, x)
        /\ ~Dense_AddFaults(d, x)
        /\ ~Dense_DiscardFaults(d, x)
    /\ ~Dense_SliceFaults(d)
    /\ \A o \in DenseOthers :
        /\ ~Dense_Equals(d, o).panics
        /\ ~Dense_Equals(o, d).panics

\* C19: after every step applied to both, the dense Slice() equals the
\* sorted reference Slice(), Contains agrees on every integer and Len()
\* agrees.
C19_DenseMatchesReference ==
    /\ Dense_Slice(d) = SortSeq(Ref_Slice(r))
    /\ \A x \in Universe : Dense_Contains(d, x) <=> Ref_Contains(r, x)
    /\ Dense_Len(d) = Ref_Len(r)

\* A dense set that started empty, grew away from 0 and lost a member.
C19_Witness ==
    /\ op \in {"Remove", "Discard"}
    /\ Dense_Contains(pre.d, arg)
    /\ d.smallest_item = 0
    /\ ~Dense_Contains(d, 0)
    /\ Dense_Len(d) = 1

\* C20: for the sparse and the dense set, after Add(x) Contains(x) is
\* true, Len() has grown by one if x was not a member and is unchanged if
\* it was, no other integer's membership has changed, and a second Add(x)
\* changes nothing.
C20_Add ==
    op = "Add" =>
        /\ Contains(s, arg)
        /\ SLen(s) = SLen(pre.s) + (IF Contains(pre.s, arg) THEN 0 ELSE 1)
        /\ Members(s) = Members(pre.s) \cup {arg}
        /\ Add(s, arg) = s
        /\ Dense_Contains(d, arg)
        /\ Dense_Len(d) = Dense_Len(pre.d)
                            + (IF Dense_Contains(pre.d, arg) THEN 0 ELSE 1)
        /\ Dense_Members(d) = Dense_Members(pre.d) \cup {arg}
        /\ Dense_Add(d, arg) = d

\* An Add below the smallest member, into a new chunk of the sparse set.
C20_Witness ==
    /\ op = "Add"
    /\ ~Contains(pre.s, arg)
    /\ Dense_Len(pre.d) >= 1
    /\ arg < pre.d.smallest_item
    /\ KeyOf(arg) \notin DOMAIN pre.s
    /\ SLen(s) = 3

\* C21: Len() of the sparse set is the number of integers it contains, in
\* every state reached by NewSet and then Add, Remove and Discard; for
\* NewSet(xs) it is the number of distinct values of xs.
C21_LenCountsMembers ==
    /\ SLen(s) = Cardinality(Members(s))
    /\ op = "NewSet" => SLen(s) = Cardinality(Range(inp))

\* A set with two members in one chunk and an emptied chunk, after a
\* Remove.
C21_Witness ==
    /\ op = "Remove"
    /\ err.sparse = nil
    /\ SLen(s) = 2
    /\ \E k \in DOMAIN s : s[k] = Zero
    /\ \E k \in DOMAIN s : OnesCount64(s[k]) = 2

\* The sparse set the last call was made on, the other one, and the two
\* before the call.
Receiver == IF rcv = "s" THEN s ELSE t
Bystander == IF rcv = "s" THEN t ELSE s
ReceiverBefore == IF rcv = "s" THEN pre.s ELSE pre.t
BystanderBefore == IF rcv = "s" THEN pre.t ELSE pre.s

Mutators == {"Add", "Remove", "Discard", "Pop", "Clear"} \cup InPlaces

\* C22: the set Copy() returns Equals the original and shares no storage
\* with it, and no Add, Remove, Discard, Pop, Clear or in-place operation
\* on either of the two changes the membership of the other.
C22_CopyIsIndependent ==
    /\ at.s # at.t
    /\ op = "Copy" => Equals(Bystander, Receiver) /\ Equals(Receiver, Bystander)
    /\ op \in Mutators => Members(Bystander) = Members(BystanderBefore)

\* An Add to the copy of an integer the original lacks, the original
\* holding a member and a zero word.
C22_Witness ==
    /\ op = "Add"
    /\ rcv = "t"
    /\ ~Contains(pre.t, arg)
    /\ ~Contains(s, arg)
    /\ Members(s) # {}
    /\ \E k \in DOMAIN s : s[k] = Zero

\* The items separated by ", ", with no separator after the last one.
RECURSIVE Joined(_)
Joined(items) ==
    IF items = <<>> THEN ""
    ELSE IF Len(items) = 1 THEN Sprintf(items[1])
    ELSE Sprintf(items[1]) \o ", " \o Joined(Tail(items))

\* C23: String() of the dense set is "{", the members in ascending order
\* separated by ", ", and "}"; it is "{}" when the set has no members.
C23_DenseString == Dense_String(d) = "{" \o Joined(Dense_Slice(d)) \o "}"

\* C24: invariant I1 of the dense set: when the set has a member, bits[0]
\* and bits[len(bits)-1] are true, so smallest_item is the least member
\* and smallest_item + len(bits) - 1 the greatest.
C24_DenseBoundsTight ==
    Dense_Len(d) > 0 =>
        /\ d.bits[1]
        /\ d.bits[Len(d.bits)]
        /\ d.smallest_item = SetMin(Dense_Members(d))
        /\ get_upper_value(d) = SetMax(Dense_Members(d))

\* C25: invariant I2 of the dense set: n_items is the number of true
\* entries of bits, and it is never negative.
C25_DenseCount ==
    /\ d.n_items = Cardinality(TrueIdx(d.bits))
    /\ d.n_items >= 0

\* An Add of an integer that is already a member, in a set whose bits
\* hold a false entry.
C25_Witness ==
    /\ op = "Add"
    /\ Dense_Contains(pre.d, arg)
    /\ d.n_items = 2
    /\ \E i \in DOMAIN d.bits : ~d.bits[i]

\* C26: when Remove or Discard takes the last member out of a dense set,
\* bits has length zero and n_items is zero, as in NewSet of the empty
\* sequence, and a later Add(x) gives the representation of NewSet([x]).
C26_EmptiedIsCanonical ==
    (/\ op \in {"Remove", "Discard"}
     /\ Dense_Contains(pre.d, arg)
     /\ Dense_Len(pre.d) = 1) =>
        /\ Len(d.bits) = 0
        /\ d.n_items = 0
        /\ \A x \in Wide :
            Dense_Add(d, x) = Dense_NewSet(<<x>>)

\* C27: for a dense set as NewSet built it from at least one value,
\* Remove(x) with x equal to smallest_item leaves a smallest_item other
\* than x, and Remove(x) with x equal to the upper value leaves an upper
\* value other than x.
C27_RemoveMovesBounds ==
    (op = "Remove" /\ pre.d \in DenseBuilt /\ Dense_Len(pre.d) > 0) =>
        /\ arg = pre.d.smallest_item => d.smallest_item # arg
        /\ arg = get_upper_value(pre.d) => get_upper_value(d) # arg

NoZeroWord(data) == \A key \in DOMAIN data : data[key] # Zero

\* C28: the set Intersection returns, and the receiver after
\* IntersectionInPlace, hold no key whose word is zero, also when the
\* operands hold zero words.
C28_IntersectionNoZeroWord ==
    /\ op = "Intersection" => NoZeroWord(res)
    /\ op = "IntersectionInPlace" => NoZeroWord(Receiver)

\* An IntersectionInPlace of operands that share a key where both have
\* members and none in common, the receiver also holding a zero word.
C28_Witness ==
    /\ op = "IntersectionInPlace"
    /\ ~NoZeroWord(ReceiverBefore)
    /\ \E key \in DOMAIN ReceiverBefore \cap DOMAIN BystanderBefore :
        /\ ReceiverBefore[key] # Zero
        /\ BystanderBefore[key] # Zero
        /\ BitAnd(ReceiverBefore[key], BystanderBefore[key]) = Zero

\* C30: s.XInPlace(t) leaves s Equal to the set X(s, t) returns for the
\* same operands and leaves t's membership unchanged, and the constructor
\* X(s, t) leaves both s and t unchanged, for X among Union, Intersection,
\* Difference and SymmetricDifference.
C30_InPlaceMatchesConstructor ==
    /\ op = "UnionInPlace" =>
        Equals(Receiver, Union(ReceiverBefore, BystanderBefore))
    /\ op = "IntersectionInPlace" =>
        Equals(Receiver, Intersection(ReceiverBefore, BystanderBefore))
    /\ op = "DifferenceInPlace" =>
        Equals(Receiver, Difference(ReceiverBefore, BystanderBefore))
    /\ op = "SymmetricDifferenceInPlace" =>
        Equals(Receiver,
               SymmetricDifference(ReceiverBefore, BystanderBefore))
    /\ op \in InPlaces => Members(Bystander) = Members(BystanderBefore)
    /\ op \in Constructors => s = pre.s /\ t = pre.t

\* A SymmetricDifferenceInPlace of operands that hold the same word under
\* one key and differ elsewhere, the receiver holding a zero word.
C30_Witness ==
    /\ op = "SymmetricDifferenceInPlace"
    /\ ~NoZeroWord(ReceiverBefore)
    /\ Members(Receiver) # {}
    /\ \E key \in DOMAIN ReceiverBefore \cap DOMAIN BystanderBefore :
        /\ ReceiverBefore[key] # Zero
        /\ ReceiverBefore[key] = BystanderBefore[key]

\* C29: number_to_bitset_representation(n) returns is_positive = (n >= 0),
\* multiplier = |n| div 64 and as slot the word whose only set bit is
\* |n| mod 64; no other integer of the range has the same triple, and 64
\* and -64 have the two keys of multiplier 1.
C29_Decomposition ==
    op = "number_to_bitset_representation" =>
        /\ rep.is_positive = (arg >= 0)
        /\ rep.multiplier = abs(arg) \div 64
        /\ rep.slot = {abs(arg) % 64}
        /\ \A m \in RepRange :
            m # arg => number_to_bitset_representation(m) # rep
        /\ KeyOf(64) = Key(TRUE, 1)
        /\ KeyOf(-64) = Key(FALSE, 1)

\* The decomposition of a negative multiple of 64.
C29_Witness ==
    /\ op = "number_to_bitset_representation"
    /\ arg = -64
    /\ rep.slot = {0}

====
